---- MODULE Spec2Model ----
(***************************************************************************)
(* A model of grpclib/server.py: Stream (send / end / maybe_end),          *)
(* request_handler, Handler (accept / cancel / close / wait_closed) and    *)
(* Server (start / close / wait_closed).                                   *)
(*                                                                         *)
(* Every coroutine is cut at its await expressions: an action runs the     *)
(* code from one suspension point to the next.  A frame is put on the wire *)
(* when the transport call is made; the coroutine is then suspended in     *)
(* that await, where a requested cancellation is delivered.                *)
(***************************************************************************)
EXTENDS Integers, Sequences, FiniteSets, TLC

\* ---------------------------------------------------------------- bounds
MaxOps         == 3  \* one RPC: Stream calls its registered function makes
HandlerStreams == 1  \* one Handler: streams its transport opens
HandlerOps     == 1  \* one Handler: Stream calls the registered functions make
MaxStarts      == 2  \* a Server: callers of start()
ServerOps      == 1  \* a Server: Stream calls the registered functions make
TableStreams   == 2  \* a Task Table: streams the transport opens
ShutdownConns  == 2  \* a shutdown: connections the listener accepts
ShutdownStreams == 2 \* a shutdown: streams the transports open

None == "None"

\* ------------------------------------------------------- wire and headers
CONTENT_TYPE  == "application/grpc+proto"
CONTENT_TYPES == {"application/grpc", "application/grpc+proto"}

\* the inbound header sets the transport delivers: a well-formed request, and
\* one with each of the three faults
GoodHeaders ==
    [method |-> "POST", path |-> "/pkg.Service/Method", ctype |-> "application/grpc+proto"]
BadPath == [GoodHeaders EXCEPT !.path = "/pkg.Service/Missing"]
InHeaders ==
    {GoodHeaders, BadPath,
     [GoodHeaders EXCEPT !.method = "GET"],
     [GoodHeaders EXCEPT !.ctype = "text/html"]}

\* mapping.get(h2_path): the method descriptor, or None
mapping_get(path) == IF path = "/pkg.Service/Method" THEN "Method" ELSE None

\* the trailers a registered function may pass to end / maybe_end
FuncTrailers == {None, "5"}

\* request_handler's arguments to Stream(...)
InitialHeaders  == "200"
SuccessTrailers == "0"
FailureTrailers == "2"

\* frames on the wire of one stream
HeadersFrame(h)  == <<"headers", h>>     \* send_headers(h)
DataFrame(m)     == <<"data", m>>        \* send(stream, message)
TrailersFrame(t) == <<"trailers", t>>    \* send_headers(t, end_stream=True)

IsHeaders(f)  == f[1] = "headers"
IsData(f)     == f[1] = "data"
IsTrailers(f) == f[1] = "trailers"

Count(w, P(_)) == Len(SelectSeq(w, P))

\* --------------------------------------------------------------- state
VARIABLES
    rpc,          \* per stream: the task running request_handler, its Stream, its wire
    opsLeft,      \* Stream calls the registered functions may still make
    tasks,        \* Handler.tasks: per handler, stream -> task
    cancelled,    \* Handler._cancelled: per handler, a set of tasks
    hwPc,         \* per handler: a caller of Handler.wait_closed()
    hwSet,        \* per handler: the tasks that wait() call is waiting for
    hErr,         \* per handler: what the last cancel() call raised
    live,         \* the Handler objects constructed so far
    handlers,     \* Server._handlers
    tcp_server,   \* Server._tcp_server: None (0) or a listening socket
    socks,        \* every listening socket create_server made, with its state
    startPc,      \* per caller of Server.start(): where it is
    closeRes,     \* outcome of the last Server.close() call
    swPc,         \* the caller of Server.wait_closed(): where it is
    swSub,        \* the h.wait_closed() coroutines Server.wait_closed() waits for
    cancelledIsException  \* the interpreter: CancelledError derives from Exception

vars == <<rpc, opsLeft, tasks, cancelled, hwPc, hwSet, hErr, live, handlers, tcp_server,
          socks, startPc, closeRes, swPc, swSub, cancelledIsException>>

handlerVars == <<tasks, cancelled, hwPc, hwSet, hErr, live>>
serverVars  == <<handlers, tcp_server, socks, startPc, closeRes, swPc, swSub>>

Streams  == DOMAIN rpc
Handlers == DOMAIN tasks
Starters == DOMAIN startPc

\* ----------------------------------------------------------- the Stream
\* A task that was never created.  pc is where the task is suspended; fres is
\* how the registered function ended (returned, raised, cancelled); pend holds
\* the arguments of the send call in progress.
NoHeaders == [method |-> None, path |-> None, ctype |-> None]
NoPend    == [ok |-> FALSE, end |-> FALSE]

NoRpc ==
    [pc |-> "none", hdr |-> NoHeaders, headers_sent |-> FALSE, ended |-> FALSE,
     wire |-> <<>>, logs |-> 0, fres |-> None, caller |-> None,
     pend |-> NoPend, cancelReq |-> FALSE]

Finished(r) == r.pc \in {"done", "failed", "cancelled"}
Created(r)  == r.pc # "none"

\* A faulty Stream.send, against which C4 is tested: every call sends the headers.
send_needs_headers_always(r) == TRUE

\* Stream.send, line 26: are the initial headers still to be sent?
send_needs_headers(r) == ~r.headers_sent

\* A faulty Stream.maybe_end, against which C18 is tested: it never calls end.
maybe_end_guard_never(r) == FALSE

\* Stream.maybe_end, line 42: is the stream still to be ended?
maybe_end_guard(r) == ~r.ended

\* A faulty Stream.end, against which C12 is tested: the assertion always fails.
end_assert_never(r) == FALSE

\* Stream.end, line 38: the assertion
end_assert(r) == ~r.ended

\* Stream.end, lines 36-37: the trailers sent
end_trailers(trailers) == IF trailers = None THEN SuccessTrailers ELSE trailers

\* Stream.end up to its await: the trailers frame goes out, the coroutine is
\* suspended in send_headers; `caller` is where it returns to.  No assignment
\* to _ended follows the await.  A failed assertion yields pc = "raise".
Stream_end(r, trailers, caller) ==
    IF end_assert(r)
    THEN [r EXCEPT !.wire = Append(@, TrailersFrame(end_trailers(trailers))),
                   !.pc = "end_headers", !.caller = caller]
    ELSE [r EXCEPT !.pc = "raise", !.caller = caller]

\* Stream.maybe_end up to its await (or to its return when there is none).
Stream_maybe_end(r, trailers, caller) ==
    IF maybe_end_guard(r)
    THEN Stream_end(r, trailers, caller)
    ELSE [r EXCEPT !.pc = "return", !.caller = caller]

\* request_handler, lines 79-81: the except branch, up to its await.  An
\* exception raised inside the branch leaves request_handler: the task fails.
handler_except(r) ==
    LET logged == [r EXCEPT !.logs = @ + 1]
        e == Stream_maybe_end(logged, FailureTrailers, "handler")
    IN  IF e.pc = "raise" THEN [e EXCEPT !.pc = "failed"]
        ELSE IF e.pc = "return" THEN [e EXCEPT !.pc = "done"]
        ELSE e

\* request_handler, lines 82-83: the else branch, up to its await.
handler_else(r) ==
    LET e == Stream_maybe_end(r, None, "handler")
    IN  IF e.pc = "raise" THEN [e EXCEPT !.pc = "failed"]
        ELSE IF e.pc = "return" THEN [e EXCEPT !.pc = "done"]
        ELSE e

\* An exception raised by a Stream call made by the registered function: the
\* function lets it through (request_handler's except branch runs) or catches it.
func_exception(r, catches) ==
    IF catches THEN [r EXCEPT !.pc = "func", !.caller = None, !.pend = NoPend]
    ELSE handler_except([r EXCEPT !.caller = None, !.pend = NoPend, !.fres = "raised"])

\* A Stream call made by the registered function has come to its next stop.
func_call(e, catches) ==
    IF e.pc = "raise" THEN func_exception(e, catches)
    ELSE IF e.pc = "return" THEN [e EXCEPT !.pc = "func", !.caller = None, !.pend = NoPend]
    ELSE [e EXCEPT !.pend = NoPend]

\* Stream.send from line 30 on: the type assertion, then the message is sent
\* and the coroutine is suspended in send(stream, message).
send_message(r, ok, end, catches) ==
    IF ~ok THEN func_exception([r EXCEPT !.pend = NoPend], catches)
    ELSE [r EXCEPT !.wire = Append(@, DataFrame(Count(r.wire, IsData) + 1)),
                   !.pc = "send_data",
                   !.pend = [ok |-> ok, end |-> end]]

\* Stream.send from its call to its first await.
Stream_send(r, ok, end, catches) ==
    IF send_needs_headers(r)
    THEN [r EXCEPT !.wire = Append(@, HeadersFrame(InitialHeaders)),
                   !.pc = "send_headers",
                   !.pend = [ok |-> ok, end |-> end]]
    ELSE send_message(r, ok, end, catches)

\* ------------------------------------------------------ request_handler
\* A faulty request_handler, against which C19 is tested: no assertion is made.
request_valid_always(hdr) == TRUE

\* request_handler, lines 68-72: the three assertions on the inbound headers
request_valid(hdr) ==
    /\ hdr.method = "POST"
    /\ mapping_get(hdr.path) # None
    /\ hdr.ctype \in CONTENT_TYPES

\* A registered function makes one more Stream call.
OneOp == opsLeft > 0 /\ opsLeft' = opsLeft - 1

Runnable(t) == ~Finished(rpc[t]) /\ ~rpc[t].cancelReq

SetRpc(t, r) == rpc' = [rpc EXCEPT ![t] = r]

\* The event loop runs a new task for the first time: request_handler from
\* line 63 to the call of method.func(stream).  A failed assertion ends the
\* task with that error, before any Stream exists.  (The headers are a local
\* variable that is not read again.)
TaskStart(t) ==
    /\ rpc[t].pc = "new" /\ Runnable(t)
    /\ SetRpc(t, IF request_valid(rpc[t].hdr)
                 THEN [rpc[t] EXCEPT !.pc = "func", !.hdr = NoHeaders]
                 ELSE [rpc[t] EXCEPT !.pc = "failed"])
    /\ UNCHANGED <<handlerVars, serverVars, opsLeft, cancelledIsException>>

\* The registered function calls stream.send(message, end): `ok` says whether
\* the message is of the reply type, `catches` whether the function catches
\* what this step of the call raises.
FuncSend(t, ok, end, catches) ==
    /\ rpc[t].pc = "func" /\ Runnable(t) /\ OneOp
    /\ SetRpc(t, Stream_send(rpc[t], ok, end, catches))
    /\ UNCHANGED <<handlerVars, serverVars, cancelledIsException>>

\* Stream.send resumes after send_headers: lines 28-31.
ResumeSendHeaders(t, catches) ==
    /\ rpc[t].pc = "send_headers" /\ Runnable(t)
    /\ SetRpc(t, send_message([rpc[t] EXCEPT !.headers_sent = TRUE],
                              rpc[t].pend.ok, rpc[t].pend.end, catches))
    /\ UNCHANGED <<handlerVars, serverVars, opsLeft, cancelledIsException>>

\* Stream.send resumes after send(stream, message): lines 32-33.
ResumeSendData(t, catches) ==
    /\ rpc[t].pc = "send_data" /\ Runnable(t)
    /\ SetRpc(t, IF rpc[t].pend.end
                 THEN func_call(Stream_end(rpc[t], None, "func"), catches)
                 ELSE [rpc[t] EXCEPT !.pc = "func", !.pend = NoPend])
    /\ UNCHANGED <<handlerVars, serverVars, opsLeft, cancelledIsException>>

\* The registered function calls stream.end(trailers).
FuncEnd(t, trailers, catches) ==
    /\ rpc[t].pc = "func" /\ Runnable(t) /\ OneOp
    /\ SetRpc(t, func_call(Stream_end(rpc[t], trailers, "func"),
                           catches))
    /\ UNCHANGED <<handlerVars, serverVars, cancelledIsException>>

\* The registered function calls stream.maybe_end(trailers).
FuncMaybeEnd(t, trailers, catches) ==
    /\ rpc[t].pc = "func" /\ Runnable(t) /\ OneOp
    /\ SetRpc(t, func_call(Stream_maybe_end(rpc[t], trailers,
                                            "func"), catches))
    /\ UNCHANGED <<handlerVars, serverVars, cancelledIsException>>

\* Stream.end resumes after send_headers(trailers, end_stream=True), line 39,
\* and returns: to the registered function, or to request_handler, which is
\* then at its end.
ResumeEnd(t) ==
    /\ rpc[t].pc = "end_headers" /\ Runnable(t)
    /\ SetRpc(t, IF rpc[t].caller = "func"
                 THEN [rpc[t] EXCEPT !.pc = "func", !.caller = None]
                 ELSE [rpc[t] EXCEPT !.pc = "done"])
    /\ UNCHANGED <<handlerVars, serverVars, opsLeft, cancelledIsException>>

\* The registered function returns: request_handler's else branch.
FuncReturn(t) ==
    /\ rpc[t].pc = "func" /\ Runnable(t)
    /\ SetRpc(t, handler_else([rpc[t] EXCEPT !.fres = "returned"]))
    /\ UNCHANGED <<handlerVars, serverVars, opsLeft, cancelledIsException>>

\* The registered function raises an Exception: request_handler's except branch.
FuncRaise(t) ==
    /\ rpc[t].pc = "func" /\ Runnable(t)
    /\ SetRpc(t, handler_except([rpc[t] EXCEPT !.fres = "raised"]))
    /\ UNCHANGED <<handlerVars, serverVars, opsLeft, cancelledIsException>>

\* Is the task suspended inside the try block of request_handler (line 78)?
in_try(r) ==
    \/ r.pc \in {"func", "send_headers", "send_data"}
    \/ r.pc = "end_headers" /\ r.caller = "func"

\* CancelledError is thrown into the task at its suspension point.  Inside the
\* try block it passes through the registered function and meets `except
\* Exception`, which catches it where CancelledError derives from Exception.
throw_cancelled(r, isException) ==
    LET c == [r EXCEPT !.cancelReq = FALSE, !.pend = NoPend,
                       !.fres = IF in_try(r) THEN "cancelled" ELSE @]
    IN  IF in_try(r) /\ isException
        THEN handler_except([c EXCEPT !.caller = None])
        ELSE [c EXCEPT !.pc = "cancelled"]

\* The event loop resumes a task whose cancellation was requested.
DeliverCancel(t) ==
    /\ ~Finished(rpc[t]) /\ rpc[t].cancelReq
    /\ SetRpc(t, throw_cancelled(rpc[t], cancelledIsException))
    /\ UNCHANGED <<handlerVars, serverVars, opsLeft, cancelledIsException>>

\* -------------------------------------------------------------- Handler
\* A faulty Handler.cancel, against which C10 is tested: task.cancel() is not called.
task_cancel_none(R, T) == R

\* task.cancel() for every task of T: a finished task is left alone
task_cancel(R, T) ==
    [t \in DOMAIN R |->
        IF t \in T /\ Created(R[t]) /\ ~Finished(R[t])
        THEN [R[t] EXCEPT !.cancelReq = TRUE] ELSE R[t]]

Range(f) == {f[x] : x \in DOMAIN f}

\* A faulty Handler.cancel, against which C14 is tested: the entry is read
\* and not removed.
Pop_keep(d, key) == d

\* dict.pop(key) leaves the other entries
Pop(d, key) == [k \in DOMAIN d \ {key} |-> d[k]]

\* The stream the transport opens next
next_stream == CHOOSE s \in Streams : rpc[s].pc = "none" /\ \A u \in 1..(s - 1) : rpc[u].pc # "none"

\* Handler.accept(stream, headers): the transport opened a new stream on the
\* connection of handler h.  The task runs request_handler for that stream.
HandlerAccept(h, hdr) ==
    /\ h \in live
    /\ \E s \in Streams : rpc[s].pc = "none"
    /\ LET s == next_stream IN
        /\ tasks' = [tasks EXCEPT ![h] = (s :> s) @@ @]
        /\ SetRpc(s, [NoRpc EXCEPT !.pc = "new", !.hdr = hdr])
    /\ UNCHANGED <<cancelled, hwPc, hwSet, hErr, live, serverVars, opsLeft, cancelledIsException>>

\* Handler.cancel(stream): the transport reports a reset of the stream.
HandlerCancel(h, s) ==
    /\ h \in live
    /\ IF s \in DOMAIN tasks[h]
       THEN /\ tasks' = [tasks EXCEPT ![h] = Pop(@, s)]
            /\ rpc' = task_cancel(rpc, {tasks[h][s]})
            /\ cancelled' = [cancelled EXCEPT ![h] = @ \cup {tasks[h][s]}]
            /\ hErr' = [hErr EXCEPT ![h] = "none"]
       ELSE /\ hErr' = [hErr EXCEPT ![h] = "KeyError"]
            /\ UNCHANGED <<tasks, rpc, cancelled>>
    /\ UNCHANGED <<hwPc, hwSet, live, serverVars, opsLeft, cancelledIsException>>

\* A faulty Handler.close, against which C15 is tested: _cancelled is replaced
\* by the tasks of the table instead of being updated with them.
handler_close_replace(R, C, h) ==
    [rpc |-> task_cancel(R, Range(tasks[h])),
     cancelled |-> [C EXCEPT ![h] = Range(tasks[h])]]

\* Handler.close() on the state (R, C) of tasks and cancelled sets
handler_close(R, C, h) ==
    [rpc |-> task_cancel(R, Range(tasks[h])),
     cancelled |-> [C EXCEPT ![h] = @ \cup Range(tasks[h])]]

\* Handler.close(): the transport reports that the connection is terminating.
HandlerClose(h) ==
    /\ h \in live
    /\ rpc' = handler_close(rpc, cancelled, h).rpc
    /\ cancelled' = handler_close(rpc, cancelled, h).cancelled
    /\ UNCHANGED <<tasks, hwPc, hwSet, hErr, live, serverVars, opsLeft, cancelledIsException>>

\* Handler.wait_closed() is called: it returns at once when _cancelled is
\* empty, else it is suspended in wait(self._cancelled).
HandlerWaitClosed(h) ==
    /\ h \in live /\ hwPc[h] # "waiting"
    /\ IF cancelled[h] # {}
       THEN /\ hwPc' = [hwPc EXCEPT ![h] = "waiting"]
            /\ hwSet' = [hwSet EXCEPT ![h] = cancelled[h]]
       ELSE /\ hwPc' = [hwPc EXCEPT ![h] = "returned"]
            /\ hwSet' = [hwSet EXCEPT ![h] = {}]
    /\ UNCHANGED <<rpc, tasks, cancelled, hErr, live, serverVars, opsLeft, cancelledIsException>>

\* A faulty Handler.wait_closed, against which C17 is tested: the wait is over
\* with the first task that finishes.
wait_done_any(fs) == \E t \in fs : Finished(rpc[t])

\* wait(fs) is over when every task of fs has finished
wait_done(fs) == \A t \in fs : Finished(rpc[t])

\* Handler.wait_closed() resumes after wait(...) and returns.
HandlerWaitClosedResume(h) ==
    /\ hwPc[h] = "waiting" /\ wait_done(hwSet[h])
    /\ hwPc' = [hwPc EXCEPT ![h] = "returned"]
    /\ hwSet' = [hwSet EXCEPT ![h] = {}]
    /\ UNCHANGED <<rpc, tasks, cancelled, hErr, live, serverVars, opsLeft, cancelledIsException>>

\* --------------------------------------------------------------- Server
NoSocket == 0     \* self._tcp_server = None

\* A faulty Server.start, against which C8 is tested: the check never fires.
start_guard_never(srv) == FALSE

\* Server.start, line 135: the check
start_guard(srv) == srv # NoSocket

\* Server._protocol_factory(): the listener accepted a connection.
ProtocolFactory ==
    /\ \E k \in DOMAIN socks : socks[k] = "listening"
    /\ Cardinality(live) < Cardinality(Handlers)
    /\ live' = live \cup {Cardinality(live) + 1}
    /\ handlers' = handlers \cup {Cardinality(live) + 1}
    /\ UNCHANGED <<rpc, tasks, cancelled, hwPc, hwSet, hErr, tcp_server, socks, startPc, closeRes, swPc, swSub,
                   opsLeft, cancelledIsException>>

\* Server.start() is called: it raises, or is suspended in create_server.
ServerStart(i) ==
    /\ startPc[i] = "idle" /\ \A j \in 1..(i - 1) : startPc[j] # "idle"
    /\ startPc' = [startPc EXCEPT ![i] = IF start_guard(tcp_server) THEN "raised"
                                         ELSE "create_server"]
    /\ UNCHANGED <<rpc, handlerVars, handlers, tcp_server, socks, closeRes, swPc, swSub,
                   opsLeft, cancelledIsException>>

\* Server.start() resumes: create_server made a listening socket, which is
\* assigned to _tcp_server.
ServerStartResume(i) ==
    /\ startPc[i] = "create_server"
    /\ socks' = Append(socks, "listening")
    /\ tcp_server' = Len(socks) + 1
    /\ startPc' = [startPc EXCEPT ![i] = "done"]
    /\ UNCHANGED <<rpc, handlerVars, handlers, closeRes, swPc, swSub, opsLeft, cancelledIsException>>

\* A faulty Server.close, against which C13 is tested: no handler is closed.
close_all_none(R, C, H) == [rpc |-> R, cancelled |-> C]

\* handler.close() for every handler of H, one after the other
RECURSIVE close_all(_, _, _)
close_all(R, C, H) ==
    IF H = {} THEN [rpc |-> R, cancelled |-> C]
    ELSE LET h == CHOOSE x \in H : TRUE
             one == handler_close(R, C, h)
         IN  close_all(one.rpc, one.cancelled, H \ {h})

\* Server.close()
ServerClose ==
    IF tcp_server = NoSocket
    THEN /\ closeRes' = "raised"
         /\ UNCHANGED <<rpc, handlerVars, handlers, tcp_server, socks, startPc, swPc, swSub,
                        opsLeft, cancelledIsException>>
    ELSE /\ closeRes' = "closed"
         /\ socks' = [socks EXCEPT ![tcp_server] = "closed"]
         /\ rpc' = close_all(rpc, cancelled, handlers).rpc
         /\ cancelled' = close_all(rpc, cancelled, handlers).cancelled
         /\ UNCHANGED <<tasks, hwPc, hwSet, hErr, live, handlers, tcp_server, startPc, swPc, swSub,
                        opsLeft, cancelledIsException>>

NoSub == [pc |-> "none", fs |-> {}]

\* Server.wait_closed() is called: it raises, or is suspended in
\* self._tcp_server.wait_closed().
ServerWaitClosed ==
    /\ swPc \in {"idle", "raised"}
    /\ swPc' = IF tcp_server = NoSocket THEN "raised" ELSE "tcp_wait"
    /\ UNCHANGED <<rpc, handlerVars, handlers, tcp_server, socks, startPc, closeRes, swSub,
                   opsLeft, cancelledIsException>>

\* Server.wait_closed() resumes once the listening socket is closed: lines
\* 153-155.  wait() wraps one h.wait_closed() coroutine per handler in a task.
ServerWaitClosedTcp ==
    /\ swPc = "tcp_wait" /\ socks[tcp_server] = "closed"
    /\ IF handlers # {}
       THEN /\ swPc' = "handlers_wait"
            /\ swSub' = [h \in Handlers |-> IF h \in handlers
                                            THEN [pc |-> "new", fs |-> {}] ELSE NoSub]
       ELSE /\ swPc' = "done"
            /\ UNCHANGED swSub
    /\ UNCHANGED <<rpc, handlerVars, handlers, tcp_server, socks, startPc, closeRes,
                   opsLeft, cancelledIsException>>

\* One of those tasks runs h.wait_closed() to its await, or to its end.
SubWaitStart(h) ==
    /\ swPc = "handlers_wait" /\ swSub[h].pc = "new"
    /\ swSub' = [swSub EXCEPT ![h] = IF cancelled[h] # {}
                                     THEN [pc |-> "waiting", fs |-> cancelled[h]]
                                     ELSE [pc |-> "done", fs |-> {}]]
    /\ UNCHANGED <<rpc, handlerVars, handlers, tcp_server, socks, startPc, closeRes, swPc,
                   opsLeft, cancelledIsException>>

\* One of those tasks resumes after wait(self._cancelled) and ends.
SubWaitResume(h) ==
    /\ swPc = "handlers_wait" /\ swSub[h].pc = "waiting" /\ wait_done(swSub[h].fs)
    /\ swSub' = [swSub EXCEPT ![h] = [pc |-> "done", fs |-> {}]]
    /\ UNCHANGED <<rpc, handlerVars, handlers, tcp_server, socks, startPc, closeRes, swPc,
                   opsLeft, cancelledIsException>>

\* Server.wait_closed() resumes after wait({...}) and returns.
ServerWaitClosedResume ==
    /\ swPc = "handlers_wait"
    /\ \A h \in Handlers : swSub[h].pc \in {"none", "done"}
    /\ swPc' = "done"
    /\ swSub' = [h \in Handlers |-> NoSub]
    /\ UNCHANGED <<rpc, handlerVars, handlers, tcp_server, socks, startPc, closeRes,
                   opsLeft, cancelledIsException>>

\* ----------------------------------------------------------- behaviours
\* Handler.__init__ for the handlers H, none of them registered with a Server;
\* Server.__init__; the transport may open the streams S.
InitWith(H, S, ops) ==
    /\ rpc = [s \in S |-> NoRpc]
    /\ opsLeft = ops
    /\ tasks = [h \in H |-> <<>>]
    /\ cancelled = [h \in H |-> {}]
    /\ hwPc = [h \in H |-> "idle"]
    /\ hwSet = [h \in H |-> {}]
    /\ hErr = [h \in H |-> "none"]
    /\ handlers = {}
    /\ tcp_server = NoSocket
    /\ socks = <<>>
    /\ startPc = [i \in 1..MaxStarts |-> "idle"]
    /\ closeRes = "none"
    /\ swPc = "idle"
    /\ swSub = [h \in H |-> NoSub]
    /\ cancelledIsException \in BOOLEAN

\* The steps of the tasks: request_handler, the registered function, the Stream.
TaskNext ==
    \/ \E t \in Streams : TaskStart(t)
    \/ \E t \in Streams, ok \in BOOLEAN, end \in BOOLEAN, catches \in BOOLEAN :
          FuncSend(t, ok, end, catches)
    \/ \E t \in Streams, catches \in BOOLEAN : ResumeSendHeaders(t, catches)
    \/ \E t \in Streams, catches \in BOOLEAN : ResumeSendData(t, catches)
    \/ \E t \in Streams, tr \in FuncTrailers, catches \in BOOLEAN : FuncEnd(t, tr, catches)
    \/ \E t \in Streams, tr \in FuncTrailers, catches \in BOOLEAN : FuncMaybeEnd(t, tr, catches)
    \/ \E t \in Streams : ResumeEnd(t)
    \/ \E t \in Streams : FuncReturn(t)
    \/ \E t \in Streams : FuncRaise(t)
    \/ \E t \in Streams : DeliverCancel(t)

\* The events of the transport on a connection; the requests are well-formed
\* or name a path that is not in the mapping.
TransportNext ==
    \/ \E h \in Handlers, hdr \in {GoodHeaders, BadPath} : HandlerAccept(h, hdr)
    \/ \E h \in Handlers, s \in Streams : HandlerCancel(h, s)
    \/ \E h \in Handlers : HandlerClose(h)
    \/ \E h \in Handlers : HandlerWaitClosed(h)
    \/ \E h \in Handlers : HandlerWaitClosedResume(h)

\* The Server, its callers and its listeners.
ServerNext ==
    \/ ProtocolFactory
    \/ \E i \in Starters : ServerStart(i)
    \/ \E i \in Starters : ServerStartResume(i)
    \/ ServerClose
    \/ ServerWaitClosed
    \/ ServerWaitClosedTcp
    \/ \E h \in Handlers : SubWaitStart(h)
    \/ \E h \in Handlers : SubWaitResume(h)
    \/ ServerWaitClosedResume

\* A Server, the one connection its listeners accept and the one stream the
\* transport opens on it.
Init == InitWith({1}, {1}, ServerOps) /\ live = {}
Next ==
    \/ TaskNext
    \/ \E h \in Handlers, hdr \in InHeaders : HandlerAccept(h, hdr)
    \/ ServerNext
Spec == Init /\ [][Next]_vars

\* One Handler, made for a connection, and the streams of that connection.
InitHandler == InitWith({1}, 1..HandlerStreams, HandlerOps) /\ live = {1}
NextHandler == TaskNext \/ TransportNext
SpecHandler == InitHandler /\ [][NextHandler]_vars

\* The event loop runs every task that is ready: a cancellation requested is
\* delivered, a send_headers call of the transport returns, and a wait() whose
\* tasks have all finished returns.
HandlerFairness ==
    /\ \A t \in 1..HandlerStreams : WF_vars(DeliverCancel(t))
    /\ \A t \in 1..HandlerStreams : WF_vars(ResumeEnd(t))
    /\ WF_vars(HandlerWaitClosedResume(1))
SpecHandlerFair == SpecHandler /\ HandlerFairness

\* One RPC: one Handler and the one stream its transport opens.
InitStream == InitWith({1}, {1}, MaxOps) /\ live = {1}
NextStream ==
    \/ TaskNext
    \/ \E h \in Handlers, hdr \in InHeaders : HandlerAccept(h, hdr)
    \/ \E h \in Handlers, s \in Streams : HandlerCancel(h, s)
    \/ \E h \in Handlers : HandlerClose(h)
SpecStream == InitStream /\ [][NextStream]_vars

\* The event loop runs the task whenever it is ready: it is started, every
\* call of the transport it awaits returns, and its registered function comes
\* to an end (it returns or raises) once it makes no further Stream call.
StreamFairness ==
    /\ WF_vars(TaskStart(1))
    /\ WF_vars(\E catches \in BOOLEAN : ResumeSendHeaders(1, catches))
    /\ WF_vars(\E catches \in BOOLEAN : ResumeSendData(1, catches))
    /\ WF_vars(ResumeEnd(1))
    /\ WF_vars(FuncReturn(1) \/ FuncRaise(1))
    /\ WF_vars(DeliverCancel(1))
SpecStreamFair == SpecStream /\ StreamFairness

\* The steps of tasks whose registered functions make no Stream call: they
\* return or raise, and request_handler ends the stream.
TaskNextPlain ==
    \/ \E t \in Streams : TaskStart(t)
    \/ \E t \in Streams : ResumeEnd(t)
    \/ \E t \in Streams : FuncReturn(t)
    \/ \E t \in Streams : FuncRaise(t)
    \/ \E t \in Streams : DeliverCancel(t)

\* The Task Table and the Cancelled Set of one Handler: the streams of its
\* connection carry well-formed requests.
InitTable == InitWith({1}, 1..TableStreams, 0) /\ live = {1}
NextTable ==
    \/ TaskNextPlain
    \/ \E h \in Handlers : HandlerAccept(h, GoodHeaders)
    \/ \E h \in Handlers, s \in Streams : HandlerCancel(h, s)
    \/ \E h \in Handlers : HandlerClose(h)
    \/ \E h \in Handlers : HandlerWaitClosed(h)
    \/ \E h \in Handlers : HandlerWaitClosedResume(h)
SpecTable == InitTable /\ [][NextTable]_vars

\* The shutdown of a Server that is started by one caller: the connections
\* its listener accepts, the streams their transports open, and close().
InitShutdown == InitWith(1..ShutdownConns, 1..ShutdownStreams, 0) /\ live = {}
NextShutdown ==
    \/ TaskNextPlain
    \/ \E h \in Handlers : HandlerAccept(h, GoodHeaders)
    \/ ProtocolFactory
    \/ ServerStart(1)
    \/ ServerStartResume(1)
    \/ ServerClose
SpecShutdown == InitShutdown /\ [][NextShutdown]_vars

\* ------------------------------------------------------------ properties
Trailers(w) == SelectSeq(w, IsTrailers)

\* The stream was ended by its registered function, which runs on: an end
\* call made by the function has returned to it.
EndedByFunc(r) == r.pc = "func" /\ Len(Trailers(r.wire)) >= 1

\* No cancellation was requested of the task while it ran.
NotCancelled(r) == ~r.cancelReq /\ r.fres # "cancelled" /\ r.pc # "cancelled"

\* C1: on every stream whose request passed validation, whatever the
\* registered function does, at most one trailers frame is ever on the wire,
\* and exactly one once request_handler has finished.
C1_ExactlyOneTrailer ==
    \A t \in Streams :
        NotCancelled(rpc[t])
            => /\ Len(Trailers(rpc[t].wire)) <= 1
               /\ rpc[t].pc = "done" => Len(Trailers(rpc[t].wire)) = 1

\* C2: when the registered function returned normally and request_handler
\* has finished, exactly one trailers frame was sent and it carries
\* grpc-status 0.
C2_ReturnOneSuccessTrailer ==
    \A t \in Streams :
        (rpc[t].pc = "done" /\ rpc[t].fres = "returned")
            => Trailers(rpc[t].wire) = <<TrailersFrame(SuccessTrailers)>>

\* C3: when the registered function raised (and nothing cancelled the task),
\* request_handler finishes without
\* error, exactly one trailers frame was sent, it carries grpc-status 2, and
\* the failure was logged exactly once.
C3_RaiseOneFailureTrailer ==
    \A t \in Streams :
        (Finished(rpc[t]) /\ rpc[t].fres = "raised" /\ NotCancelled(rpc[t]))
            => /\ rpc[t].pc = "done"
               /\ Trailers(rpc[t].wire) = <<TrailersFrame(FailureTrailers)>>
               /\ rpc[t].logs = 1

\* The position of the first frame of w that satisfies P, or 0.
First(w, P(_)) ==
    IF \E i \in 1..Len(w) : P(w[i])
    THEN CHOOSE i \in 1..Len(w) : P(w[i]) /\ \A j \in 1..(i - 1) : ~P(w[j])
    ELSE 0

C5_HeadersBeforeTrailers ==
    \A t \in Streams :
        LET w == rpc[t].wire IN
        w # <<>> => /\ w[1] = HeadersFrame(InitialHeaders)
                    /\ Count(w, IsHeaders) = 1

\* C6: end called on a Stream on which an end call has already completed
\* fails with the assertion and puts no frame on the wire.
C6_SecondEndRejected ==
    \A t \in Streams : \A tr \in FuncTrailers :
        EndedByFunc(rpc[t])
            => /\ Stream_end(rpc[t], tr, "func").pc = "raise"
               /\ Stream_end(rpc[t], tr, "func").wire = rpc[t].wire

\* C7: maybe_end called on a Stream that has already been ended returns
\* without any frame and leaves the Stream as it was.
C7_MaybeEndNoOp ==
    \A t \in Streams : \A tr \in FuncTrailers :
        EndedByFunc(rpc[t])
            => Stream_maybe_end(rpc[t], tr, "func")
                   = [rpc[t] EXCEPT !.pc = "return", !.caller = "func"]

\* What a failing Server call must leave alone: the listening sockets, the
\* Handler Set and every Handler's tasks.
serverState == <<tcp_server, socks, handlers, live, tasks, cancelled, rpc>>

\* C8: start() on a started Server raises, close() and wait_closed() on a
\* Server that was never started raise, and each of these calls leaves the
\* Server, its Handler Set and every Handler's tasks as they were.
C8_InvalidStateCalls ==
    [][/\ \A i \in Starters :
            (ServerStart(i) /\ tcp_server # NoSocket)
                => (startPc'[i] = "raised" /\ UNCHANGED serverState)
       /\ (ServerClose /\ tcp_server = NoSocket)
                => (closeRes' = "raised" /\ UNCHANGED serverState)
       /\ (ServerWaitClosed /\ tcp_server = NoSocket)
                => (swPc' = "raised" /\ UNCHANGED serverState)]_vars

\* C8 witness: each of the three calls has failed, the start() on a Server
\* that has a connection with a running task.
C8_Witness ==
    /\ closeRes = "raised"
    /\ swPc = "raised"
    /\ \E i \in Starters : startPc[i] = "raised"
    /\ \E h \in handlers : \E s \in DOMAIN tasks[h] : rpc[s].pc = "func"

\* C9: a Server makes at most one listening socket, however its start()
\* calls interleave.
C9_AtMostOneSocket == Len(socks) <= 1

\* C10: Handler.cancel(stream) for a stream in the Task Table requests the
\* cancellation of its task, removes the entry and adds the task to the
\* Cancelled Set; and every wait_closed() call on the Handler (the one
\* Handler of this specification) returns.
C10_CancelThenWaitClosed ==
    /\ [][\A h \in Handlers : \A s \in Streams :
            (HandlerCancel(h, s) /\ s \in DOMAIN tasks[h])
                => /\ s \notin DOMAIN tasks'[h]
                   /\ tasks[h][s] \in cancelled'[h]
                   /\ ~Finished(rpc[tasks[h][s]]) => rpc'[tasks[h][s]].cancelReq]_vars
    /\ (hwPc[1] = "waiting") ~> (hwPc[1] = "returned")

\* C10 witness: a stream was reset in the middle of its RPC (its registered
\* function had sent a message), cancel(stream) has moved its task from the
\* Task Table to the Cancelled Set, and a wait_closed() is waiting for that
\* task, which has not stopped yet.
C10_Witness ==
    \E h \in Handlers : \E t \in cancelled[h] :
        /\ t \notin DOMAIN tasks[h]
        /\ Count(rpc[t].wire, IsData) >= 1
        /\ rpc[t].cancelReq /\ ~Finished(rpc[t])
        /\ hwPc[h] = "waiting" /\ t \in hwSet[h]

\* C11: when Server.wait_closed() returns (it gets past the listening socket
\* only after Server.close()), every task ever scheduled on a connection of
\* the Server has finished.
C11_WaitClosedJoinsAll ==
    [][(swPc # "done" /\ swPc' = "done")
          => \A t \in Streams : Created(rpc'[t]) => Finished(rpc'[t])]_vars

\* The task was handed to cancel(stream) or to close(): it is in the
\* Cancelled Set of a Handler.
EverCancelled(t) == \E h \in Handlers : t \in cancelled[h]

\* C12 as stated: every accepted stream whose task is never cancelled gets a
\* trailers frame, whatever its inbound headers are; so a task that has
\* finished without being cancelled has put one on the wire.
C12_TrailerForEveryStream ==
    \A t \in Streams :
        (Finished(rpc[t]) /\ ~EverCancelled(t)) => Len(Trailers(rpc[t].wire)) >= 1

\* C12 amended: an accepted stream (the one stream of this specification)
\* whose inbound headers pass the three assertions of request_handler and
\* whose registered function comes to an end gets a trailers frame, unless
\* its task is cancelled.
C12_TrailerForValidStream ==
    (rpc[1].pc = "new" /\ request_valid(rpc[1].hdr))
        ~> (Len(Trailers(rpc[1].wire)) >= 1 \/ EverCancelled(1))

\* C12 witness: the registered function raised without a Stream call, nothing
\* cancelled the task, and the one frame of the stream is the failure trailer.
C12_Witness ==
    /\ rpc[1].pc = "done" /\ rpc[1].fres = "raised"
    /\ rpc[1].wire = <<TrailersFrame(FailureTrailers)>>
    /\ ~EverCancelled(1)

\* C13: Server.close() on a started Server closes the listening socket the
\* Server holds, requests the cancellation of every task in the Task Table of
\* every Handler of the Handler Set, and returns (it is one step: it cannot
\* suspend) with every such task in its Handler's Cancelled Set.
C13_CloseCancelsAll ==
    [][(ServerClose /\ tcp_server # NoSocket)
          => /\ closeRes' = "closed"
             /\ socks'[tcp_server] = "closed"
             /\ \A h \in handlers : \A s \in DOMAIN tasks[h] :
                   /\ tasks[h][s] \in cancelled'[h]
                   /\ ~Finished(rpc[tasks[h][s]]) => rpc'[tasks[h][s]].cancelReq]_vars

\* C13 witness: close() has returned on a Server with two connections, each
\* with a task in flight: both tasks are in the Cancelled Set of their
\* Handler, with their cancellation requested and not yet delivered.
C13_Witness ==
    /\ closeRes = "closed"
    /\ \E g \in handlers, h \in handlers :
          /\ g # h
          /\ \E t \in Range(tasks[g]) \cap cancelled[g] :
                rpc[t].pc = "func" /\ rpc[t].cancelReq
          /\ \E u \in Range(tasks[h]) \cap cancelled[h] :
                rpc[u].pc = "func" /\ rpc[u].cancelReq

\* C14: Handler.cancel(stream) for a stream that is not in the Task Table
\* fails with KeyError, leaves the Task Table and the Cancelled Set as they
\* were and requests no cancellation; a cancel that succeeds removes the
\* stream, and a stream once out of the Task Table never returns to it: so a
\* stream is cancelled through cancel at most once.
C14_CancelAbsentFails ==
    [][\A h \in Handlers : \A s \in Streams :
          /\ (HandlerCancel(h, s) /\ s \notin DOMAIN tasks[h])
                => (hErr'[h] = "KeyError" /\ UNCHANGED <<tasks, cancelled, rpc>>)
          /\ (HandlerCancel(h, s) /\ s \in DOMAIN tasks[h])
                => (hErr'[h] = "none" /\ s \notin DOMAIN tasks'[h])
          /\ (Created(rpc[s]) /\ s \notin DOMAIN tasks[h])
                => s \notin DOMAIN tasks'[h]]_vars

\* C14 witness: every stream of the connection was accepted and then removed
\* by a cancel, and the cancel call made after that has failed.
C14_Witness ==
    /\ hErr[1] = "KeyError"
    /\ \A s \in Streams :
          Created(rpc[s]) /\ s \notin DOMAIN tasks[1] /\ s \in cancelled[1]

\* C15: Handler.close() leaves the Task Table as it was and makes the
\* Cancelled Set its previous content plus every task of the Task Table.
C15_CloseFrame ==
    [][\A h \in Handlers :
          HandlerClose(h)
              => /\ tasks' = tasks
                 /\ cancelled'[h] = cancelled[h] \cup Range(tasks[h])
                 /\ \A g \in Handlers \ {h} : cancelled'[g] = cancelled[g]]_vars

\* C15 witness: close() has run on a Handler whose Cancelled Set held a task
\* from an earlier cancel and whose Task Table holds another task: the
\* Cancelled Set holds both and the table still holds the second, whose
\* cancellation is requested.
C15_Witness ==
    \E t \in cancelled[1], u \in cancelled[1] :
        /\ t \notin Range(tasks[1])
        /\ u \in Range(tasks[1])
        /\ rpc[u].cancelReq

\* C16: every task follows Running -> Cancelling -> Finished: a task enters
\* the Cancelled Set only in a step of cancel or close and only while it is
\* running, and a finished task changes no more.
C16_TaskStateMachine ==
    [][\A h \in Handlers : \A t \in Streams :
          /\ (t \notin cancelled[h] /\ t \in cancelled'[h])
                => /\ HandlerClose(h) \/ \E s \in Streams : HandlerCancel(h, s)
                   /\ Created(rpc[t]) /\ ~Finished(rpc[t])
          /\ Finished(rpc[t]) => rpc'[t] = rpc[t]]_vars

\* C17: Handler.wait_closed() called with an empty Cancelled Set returns in
\* that same step, whatever the Task Table holds; called with a non-empty
\* one it is suspended waiting for the tasks the set holds then, and it does
\* not return before every one of them has finished.
C17_WaitClosedBlocks ==
    [][\A h \in Handlers :
          /\ (HandlerWaitClosed(h) /\ cancelled[h] = {})
                => hwPc'[h] = "returned"
          /\ (HandlerWaitClosed(h) /\ cancelled[h] # {})
                => (hwPc'[h] = "waiting" /\ hwSet'[h] = cancelled[h])
          /\ (hwPc[h] = "waiting" /\ hwPc'[h] # "waiting")
                => \A t \in hwSet[h] : Finished(rpc[t])]_vars

\* C17 witness: wait_closed() is waiting for two cancelled tasks, of which
\* one has finished and the other has not.
C17_Witness ==
    /\ hwPc[1] = "waiting"
    /\ \E t \in hwSet[1], u \in hwSet[1] :
          Finished(rpc[t]) /\ ~Finished(rpc[u]) /\ rpc[u].cancelReq

\* The data frames of a wire, in the order they went out.
Data(w) == SelectSeq(w, IsData)

\* request_handler has emitted its closing trailers frame: it is suspended in
\* the maybe_end of line 81 or 83, or it has finished.
HandlerEnded(r) == r.pc = "done" \/ (r.pc = "end_headers" /\ r.caller = "handler")

\* C18: on one Stream the data frames are on the wire in the order of the
\* send calls that produced them (the i-th message sent is the i-th data
\* frame), and the trailers frame request_handler emits when it finishes
\* comes after every data frame of the stream: it is the last frame.
C18_DataOrderTrailerLast ==
    \A t \in Streams :
        LET w == rpc[t].wire IN
        /\ \A i \in 1..Len(Data(w)) : Data(w)[i] = DataFrame(i)
        /\ HandlerEnded(rpc[t])
              => /\ w # <<>>
                 /\ IsTrailers(w[Len(w)])
                 /\ \A i \in 1..Len(w) : IsData(w[i]) => i < Len(w)

\* C18 witness: request_handler has finished a stream that carries two
\* messages, in order, and its trailers frame after them.
C18_Witness ==
    \E t \in Streams :
        /\ rpc[t].pc = "done"
        /\ Data(rpc[t].wire) = <<DataFrame(1), DataFrame(2)>>
        /\ IsTrailers(rpc[t].wire[Len(rpc[t].wire)])

\* Inbound headers with one of the three faults.
InvalidHeaders(hdr) ==
    \/ hdr.method # "POST"
    \/ hdr.path # GoodHeaders.path
    \/ hdr.ctype \notin {"application/grpc", "application/grpc+proto"}

\* C19: a task whose inbound headers have a method other than POST, an
\* unmapped path or a foreign content-type ends, the first time it runs, with
\* a failure, before a Stream exists: its registered function is not invoked
\* and its stream carries no frame, then and ever after.
C19_InvalidHeadersFailFast ==
    /\ [][\A t \in Streams :
            (TaskStart(t) /\ InvalidHeaders(rpc[t].hdr))
                => /\ rpc'[t].pc = "failed"
                   /\ rpc'[t].wire = <<>>
                   /\ rpc'[t].fres = None]_vars
    /\ [](\A t \in Streams :
            rpc[t].pc = "failed"
                => /\ InvalidHeaders(rpc[t].hdr)
                   /\ rpc[t].wire = <<>>
                   /\ rpc[t].fres = None
                   /\ ~rpc[t].headers_sent)

\* C19 witness: the task of a GET request has failed, with nothing on the
\* wire of its stream.
C19_Witness ==
    \E t \in Streams :
        /\ rpc[t].pc = "failed"
        /\ rpc[t].hdr.method = "GET"
        /\ rpc[t].wire = <<>>

\* C20: once a trailers frame (end_stream) is on the wire of a stream, no
\* further frame is emitted on it: a trailers frame is the last frame of its
\* wire, whatever send, end and maybe_end calls the registered function and
\* request_handler make.
C20_NoFrameAfterTrailer ==
    \A t \in Streams :
        \A i \in 1..Len(rpc[t].wire) :
            IsTrailers(rpc[t].wire[i]) => i = Len(rpc[t].wire)

====
